---------------------------- MODULE Spec2Model ----------------------------
(***************************************************************************)
(* A model of the TTL/capacity cache of ts-mongodb (src/cache.ts, kept in  *)
(* src/collection.js lines 177-254) and of the collection wrapper that     *)
(* consults it (BaseCollection.cacheOne).                                  *)
(*                                                                         *)
(* The cache is an object with the fields ttl, capacity, interval, last,   *)
(* map and list.  Every method is synchronous, so one action is one whole  *)
(* call.  Timestamps are the integers 0..MaxTime; a JavaScript nil         *)
(* (undefined or null) is the empty tuple, every other value a non-empty   *)
(* tuple; a map entry is the pair <<expiration, value>> and a ledger entry *)
(* the pair <<expiration, key>>, as in the source.                         *)
(***************************************************************************)
EXTENDS Integers, Sequences, FiniteSets, TLC

\* ------------------------------------------------------------- bounds
MaxTime == 3
MaxList == 3

\* ---------------------------------------------------------- constants
\* interval ?? 10000
DefaultInterval == 10000

\* the value of `undefined` (and of null: isNil accepts both)
Undefined == <<>>

\* String(id) of cacheOne: the decimal text of the id
String(id) == ToString(id)

\* the keys and values handed to the cache directly
Keys == {String(i) : i \in {1, 2, 3}}
Values == {Undefined, <<1>>}

\* the options a caller may hand to the constructor; interval is optional
TtlOptions == {-1, 0, 2}
CapacityOptions == {-1, 0, 1, 2}
IntervalOptions == {Undefined, <<0>>, <<2>>}

VARIABLES
  phase,      \* "init": no cache yet; "ready": constructed; "failed": the constructor threw
  ttl, capacity, interval,
  last,       \* Undefined, or <<t>>: the time of the last sweep
  map,        \* key -> <<expiration, value>>
  list,       \* the ledger: a sequence of <<expiration, key>>
  now,        \* the clock: what new Date() reads, and what a caller passes as time
  call,       \* the call that returned in the latest step, with its arguments and outcome
  recent,     \* key -> the most recent set on it, <<time, value>>; Undefined once the key has left the map
  order,      \* the keys of the map, in the order of their most recent set
  lastSet,    \* the latest set call, <<key, value, time>>, until its ttl has passed
  fifo,       \* no set so far hit a key that was present, and no call saw an expired entry
  window      \* while fifo: the keys of the latest set calls, at most capacity of them

\* a collection over a store, with the calls in flight on it
VARIABLES
  coll,       \* "none": no collection yet; "made": constructed; "failed": its constructor threw
  connected,  \* whether the connection is open
  store,      \* the stored documents: _id -> content
  tasks,      \* caller -> the cacheOne call it has in flight
  res         \* the collection call that returned in the latest step, with its outcome

config == <<phase, ttl, capacity, interval>>
ghost == <<recent, order, lastSet, fifo, window>>
collVars == <<coll, connected, store, tasks, res>>
vars == <<phase, ttl, capacity, interval, last, map, list, now, call, recent, order, lastSet,
          fifo, window, coll, connected, store, tasks, res>>

\* ------------------------------------------------------------ helpers
isNil(x) == x = Undefined

EmptyMap == [k \in {} |-> Undefined]

mapHas(m, key) == key \in DOMAIN m

\* Map.prototype.get: the entry, or undefined
mapGet(m, key) == IF key \in DOMAIN m THEN m[key] ELSE Undefined

\* a set that keeps the entry a key already has
mapSetIfAbsent(m, key, item) == [k \in DOMAIN m \cup {key} |-> IF k \in DOMAIN m THEN m[k] ELSE item]

\* Map.prototype.set
mapSet(m, key, item) == [k \in DOMAIN m \cup {key} |-> IF k = key THEN item ELSE m[k]]

\* Map.prototype.delete
mapDelete(m, key) == [k \in DOMAIN m \ {key} |-> m[k]]

\* a splice that drops one entry too many
spliceOneMore(l, size) == SubSeq(l, size + 2, Len(l))

\* Array.prototype.splice(0, size): drop the first size entries
splice(l, size) == SubSeq(l, size + 1, Len(l))

\* this.last?.valueOf() ?? 0
lastValue(l) == IF isNil(l) THEN 0 ELSE l[1]

\* the cache object as a value: its mutable fields, and whether an assertion failed
Cache == [map |-> map, list |-> list, last |-> last, ok |-> TRUE]

\* ---------------------------------------------------------- the cache
\* a capacity test that reports full one entry early
isFullEarly(m) == Cardinality(DOMAIN m) >= capacity - 1

\* a capacity test that lets the map grow one past capacity
isFullStrict(m) == Cardinality(DOMAIN m) > capacity

isFull(m) == Cardinality(DOMAIN m) >= capacity

\* a guard that looks at the key alone
matchesKey(m, item) == ~isNil(mapGet(m, item[2]))

\* the guard of scrub and evict: the map's entry for the ledger entry's key carries that expiration
matches(m, item) ==
  LET value == mapGet(m, item[2])
  IN  ~isNil(value) /\ value[1] = item[1]

\* a sweep that stops at an entry expiring at the timestamp itself
RECURSIVE scrubLoopEarly(_, _, _, _)
scrubLoopEarly(m, l, size, timestamp) ==
  IF size < Len(l)
    THEN LET item == l[size + 1]
         IN  IF item[1] >= timestamp
               THEN [map |-> m, size |-> size]
               ELSE scrubLoopEarly(IF matches(m, item) THEN mapDelete(m, item[2]) ELSE m,
                                   l, size + 1, timestamp)
    ELSE [map |-> m, size |-> size]

\* a sweep without the guard: it deletes the key of every ledger entry it passes
RECURSIVE scrubLoopUnguarded(_, _, _, _)
scrubLoopUnguarded(m, l, size, timestamp) ==
  IF size < Len(l)
    THEN LET item == l[size + 1]
         IN  IF item[1] > timestamp
               THEN [map |-> m, size |-> size]
               ELSE scrubLoopUnguarded(mapDelete(m, item[2]), l, size + 1, timestamp)
    ELSE [map |-> m, size |-> size]

\* the for loop of scrub: the map after the sweep, and the number of ledger entries swept
RECURSIVE scrubLoop(_, _, _, _)
scrubLoop(m, l, size, timestamp) ==
  IF size < Len(l)
    THEN LET item == l[size + 1]
         IN  IF item[1] > timestamp
               THEN [map |-> m, size |-> size]
               ELSE scrubLoop(IF matches(m, item) THEN mapDelete(m, item[2]) ELSE m,
                              l, size + 1, timestamp)
    ELSE [map |-> m, size |-> size]

\* a scrub that never gets past its rate limit
scrubDueNever(c, time) == FALSE

\* a scrub without its rate limit
scrubDueAlways(c, time) == TRUE

\* the rate limit of scrub
scrubDue(c, time) == ~(time - lastValue(c.last) < interval)

\* a scrub that shortens the ledger and leaves the map as it is
scrubKeepsMap(c, time) ==
  IF ~scrubDue(c, time)
    THEN c
    ELSE LET r == scrubLoop(c.map, c.list, 0, time)
         IN  [c EXCEPT !.list = splice(c.list, r.size), !.last = <<time>>]

scrub(c, time) ==
  IF ~scrubDue(c, time)
    THEN c
    ELSE LET r == scrubLoop(c.map, c.list, 0, time)
         IN  [c EXCEPT !.map = r.map, !.list = splice(c.list, r.size), !.last = <<time>>]

\* a get that reports an expired entry absent and leaves it in the map
getKeepsExpired(c, key, time) ==
  LET c1 == scrub(c, time)
      item == mapGet(c1.map, key)
  IN  IF ~isNil(item) /\ item[1] > time
        THEN [cache |-> c1, ret |-> item[2]]
        ELSE [cache |-> c1, ret |-> Undefined]

\* a get that still returns an entry at its expiration time
getStale(c, key, time) ==
  LET c1 == scrub(c, time)
      item == mapGet(c1.map, key)
  IN  IF ~isNil(item)
        THEN IF item[1] >= time
               THEN [cache |-> c1, ret |-> item[2]]
               ELSE [cache |-> [c1 EXCEPT !.map = mapDelete(c1.map, key)], ret |-> Undefined]
        ELSE [cache |-> c1, ret |-> Undefined]

get(c, key, time) ==
  LET c1 == scrub(c, time)
      item == mapGet(c1.map, key)
  IN  IF ~isNil(item)
        THEN IF item[1] > time
               THEN [cache |-> c1, ret |-> item[2]]
               ELSE [cache |-> [c1 EXCEPT !.map = mapDelete(c1.map, key)], ret |-> Undefined]
        ELSE [cache |-> c1, ret |-> Undefined]

\* an evict that looks at the front entry of the ledger only
evictLoopOnce(m, l, size) ==
  IF isFull(m)
    THEN IF size >= Len(l)
           THEN [map |-> m, size |-> size, ok |-> FALSE]
           ELSE LET item == l[size + 1]
                IN  [map |-> IF matches(m, item) THEN mapDelete(m, item[2]) ELSE m,
                     size |-> size + 1, ok |-> TRUE]
    ELSE [map |-> m, size |-> size, ok |-> TRUE]

\* an evict that scans the ledger from its back
RECURSIVE evictLoopNewest(_, _, _)
evictLoopNewest(m, l, size) ==
  IF isFull(m)
    THEN IF size >= Len(l)
           THEN [map |-> m, size |-> size, ok |-> FALSE]
           ELSE LET item == l[Len(l) - size]
                IN  evictLoopNewest(IF matches(m, item) THEN mapDelete(m, item[2]) ELSE m,
                                    l, size + 1)
    ELSE [map |-> m, size |-> size, ok |-> TRUE]

\* the for loop of evict; ok is FALSE when assert(!isNil(item)) fails
RECURSIVE evictLoop(_, _, _)
evictLoop(m, l, size) ==
  IF isFull(m)
    THEN IF size >= Len(l)
           THEN [map |-> m, size |-> size, ok |-> FALSE]
           ELSE LET item == l[size + 1]
                IN  evictLoop(IF matches(m, item) THEN mapDelete(m, item[2]) ELSE m, l, size + 1)
    ELSE [map |-> m, size |-> size, ok |-> TRUE]

\* an evict that leaves the ledger entry it matched in the ledger
evictKeepsMatched(c) ==
  LET r == evictLoop(c.map, c.list, 0)
  IN  IF r.ok
        THEN [c EXCEPT !.map = r.map, !.list = splice(c.list, r.size - 1)]
        ELSE [c EXCEPT !.map = r.map, !.ok = FALSE]

evict(c) ==
  LET r == evictLoop(c.map, c.list, 0)
  IN  IF r.ok
        THEN [c EXCEPT !.map = r.map, !.list = splice(c.list, r.size)]
        ELSE [c EXCEPT !.map = r.map, !.ok = FALSE]

\* a set that adds no ledger entry for a key the ledger already lists
ledgerPushOnce(l, expiration, key) ==
  IF \E i \in 1..Len(l) : l[i][2] = key THEN l ELSE Append(l, <<expiration, key>>)

\* a set that puts its ledger entry at the front
ledgerUnshift(l, expiration, key) == <<<<expiration, key>>>> \o l

\* the ledger entry a set appends
ledgerPush(l, expiration, key) == Append(l, <<expiration, key>>)

\* a set that never evicts
setPrepareNoEvict(c, key, time) ==
  [cache |-> scrub(c, time), evicted |-> {}, scanned |-> 0]

\* set up to its capacity check: scrub, then if (this.isFull() && isNil(this.get(key, now))) this.evict();
\* evicted are the keys evict deleted, scanned the number of ledger entries it dropped
setPrepare(c, key, time) ==
  LET c1 == scrub(c, time)
  IN  IF isFull(c1.map)
        THEN LET g == get(c1, key, time)
             IN  IF isNil(g.ret)
                   THEN LET c2 == evict(g.cache)
                        IN  [cache |-> c2, evicted |-> DOMAIN g.cache.map \ DOMAIN c2.map,
                             scanned |-> Len(g.cache.list) - Len(c2.list)]
                   ELSE [cache |-> g.cache, evicted |-> {}, scanned |-> 0]
        ELSE [cache |-> c1, evicted |-> {}, scanned |-> 0]

\* an expiration that runs against the clock
expirationCountdown(time) == ttl + 10 - time

\* const expiration = now.valueOf() + this.ttl
expirationOf(time) == time + ttl

\* the write of set, on the cache c2 that setPrepare left
setWrite(c2, key, value, time) ==
  LET expiration == expirationOf(time)
  IN  IF ~c2.ok
        THEN c2
        ELSE [c2 EXCEPT !.map = mapSet(c2.map, key, <<expiration, value>>),
                        !.list = ledgerPush(c2.list, expiration, key)]

set(c, key, value, time) == setWrite(setPrepare(c, key, time).cache, key, value, time)

\* ------------------------------------------------------- bookkeeping
NoCall == [op |-> "none", opts |-> <<>>, key |-> "", value |-> Undefined,
           ret |-> Undefined, threw |-> FALSE, evicted |-> {}, scanned |-> 0,
           scrubbed |-> FALSE, swept |-> <<>>, had |-> Undefined, evictedAt |-> {}]

\* the ledger entries the scrub step of a call at the given time drops from the ledger of c
sweptBy(c, time) == SubSeq(c.list, 1, Len(c.list) - Len(scrub(c, time).list))

\* the keys of s that are still in the map m, in the order of s
RECURSIVE keep(_, _)
keep(s, m) ==
  IF s = <<>> THEN <<>>
  ELSE IF Head(s) \in DOMAIN m THEN <<Head(s)>> \o keep(Tail(s), m) ELSE keep(Tail(s), m)

\* the keys of s other than key
RECURSIVE without(_, _)
without(s, key) ==
  IF s = <<>> THEN <<>>
  ELSE IF Head(s) = key THEN without(Tail(s), key) ELSE <<Head(s)>> \o without(Tail(s), key)

\* the last n entries of s
lastN(s, n) == IF Len(s) <= n THEN s ELSE SubSeq(s, Len(s) - n + 1, Len(s))

\* the record of the most recent sets, for the keys still in the map m
forget(r, m) == [k \in Keys |-> IF k \in DOMAIN m THEN r[k] ELSE Undefined]

\* some entry of the map has expired at the given time
someExpired(m, time) == \E k \in DOMAIN m : m[k][1] <= time

\* ------------------------------------------------------------ actions
\* the documents of the store: <<_id, content>>
Ids == {1, 2}
Contents == {1, 2}
Callers == {1, 2}

\* the callers of the runs in which one cacheOne is in flight at a time
OneCaller == {1}

\* the cache options a collection is made with; none: no cache
CollectionOptions == {Undefined, <<0, 1, Undefined>>, <<2, 1, Undefined>>, <<2, 1, <<0>>>>}

Idle == [pc |-> "idle", id |-> 0, doc |-> Undefined, failed |-> FALSE]

NoRes == [op |-> "none", caller |-> 0, id |-> 0, outcome |-> "", doc |-> Undefined,
          queried |-> FALSE, reply |-> ""]

Init ==
  /\ phase = "init"
  /\ ttl = 0 /\ capacity = 0 /\ interval = 0
  /\ last = Undefined
  /\ map = EmptyMap
  /\ list = <<>>
  /\ now = 0
  /\ call = NoCall
  /\ recent = [k \in Keys |-> Undefined]
  /\ order = <<>>
  /\ lastSet = Undefined
  /\ fifo = TRUE
  /\ window = <<>>
  /\ coll = "none"
  /\ connected = FALSE
  /\ store = EmptyMap
  /\ tasks = [p \in Callers |-> Idle]
  /\ res = NoRes

\* an assertion that accepts one positive option
constructorOkEither(t, c) == t > 0 \/ c > 0

\* assert(ttl > 0 && capacity > 0)
constructorOk(t, c) == t > 0 /\ c > 0

\* new Cache({ ttl, capacity, interval }): the fields of the new object
newCache(t, c, i) ==
  /\ phase = "init"
  /\ IF constructorOk(t, c)
       THEN /\ phase' = "ready"
            /\ ttl' = t
            /\ capacity' = c
            /\ interval' = IF isNil(i) THEN DefaultInterval ELSE i[1]
       ELSE /\ phase' = "failed"
            /\ UNCHANGED <<ttl, capacity, interval>>
  /\ call' = [NoCall EXCEPT !.op = "new", !.opts = <<t, c, i>>, !.threw = ~constructorOk(t, c)]
  /\ UNCHANGED <<last, map, list, now>>
  /\ UNCHANGED ghost

\* new Cache({ ttl, capacity, interval })
Constructor(t, c, i) ==
  /\ coll = "none"
  /\ newCache(t, c, i)
  /\ UNCHANGED collVars

\* there is an object whose calls read the clock
clockRead == phase = "ready" \/ coll = "made"

\* time passes: the next reading of the clock is later
Tick ==
  /\ clockRead
  /\ now < MaxTime
  /\ now' = now + 1
  /\ call' = NoCall
  /\ res' = NoRes
  /\ lastSet' = IF ~isNil(lastSet) /\ lastSet[3] + ttl <= now + 1 THEN Undefined ELSE lastSet
  /\ UNCHANGED <<phase, ttl, capacity, interval, last, map, list, recent, order, fifo, window>>
  /\ UNCHANGED <<coll, connected, store, tasks>>

\* the effect of cache.set(key, value, time) on the cache, time being the clock's reading
cacheSet(key, value) ==
  \E p \in {setPrepare(Cache, key, now)} : \E c \in {setWrite(p.cache, key, value, now)} :
      /\ Len(c.list) <= MaxList
      /\ map' = c.map
      /\ list' = c.list
      /\ last' = c.last
      /\ call' = [NoCall EXCEPT !.op = "set", !.key = key, !.value = value, !.threw = ~c.ok,
                                !.evicted = p.evicted, !.scanned = p.scanned,
                                !.scrubbed = scrubDue(Cache, now),
                                !.swept = sweptBy(Cache, now),
                                !.had = mapGet(map, key),
                                !.evictedAt = {get(scrub(Cache, now), key, now).cache.map[k][1] :
                                                 k \in p.evicted}]
      /\ recent' = forget(IF c.ok THEN [recent EXCEPT ![key] = <<now, value>>] ELSE recent, c.map)
      /\ order' = IF c.ok THEN Append(without(keep(order, c.map), key), key)
                          ELSE keep(order, c.map)
      /\ lastSet' = IF c.ok THEN <<key, value, now>> ELSE lastSet
      /\ fifo' = (fifo /\ ~mapHas(map, key) /\ ~someExpired(map, now))
      /\ window' = IF fifo /\ ~mapHas(map, key) /\ ~someExpired(map, now)
                     THEN lastN(Append(window, key), capacity)
                     ELSE <<>>

\* the effect of cache.get(key, time) on the cache, time being the clock's reading
cacheGet(key) ==
  \E g \in {get(Cache, key, now)} :
      /\ map' = g.cache.map
      /\ list' = g.cache.list
      /\ last' = g.cache.last
      /\ call' = [NoCall EXCEPT !.op = "get", !.key = key, !.ret = g.ret,
                                !.scrubbed = scrubDue(Cache, now),
                                !.swept = sweptBy(Cache, now)]
      /\ recent' = forget(recent, g.cache.map)
      /\ order' = keep(order, g.cache.map)
      /\ fifo' = (fifo /\ ~someExpired(map, now))
      /\ window' = IF fifo /\ ~someExpired(map, now) THEN window ELSE <<>>
      /\ UNCHANGED lastSet

\* a step that makes no call on the cache
cacheIdle ==
  /\ call' = NoCall
  /\ UNCHANGED <<last, map, list>>
  /\ UNCHANGED ghost

\* cache.set(key, value, time)
Set(key, value) ==
  /\ phase = "ready"
  /\ cacheSet(key, value)
  /\ UNCHANGED <<config, now>>
  /\ UNCHANGED collVars

\* cache.get(key, time)
Get(key) ==
  /\ phase = "ready"
  /\ cacheGet(key)
  /\ UNCHANGED <<config, now>>
  /\ UNCHANGED collVars

Next ==
  \/ \E t \in TtlOptions, c \in CapacityOptions, i \in IntervalOptions : Constructor(t, c, i)
  \/ Tick
  \/ \E key \in Keys, value \in Values : Set(key, value)
  \/ \E key \in Keys : Get(key)

Spec == Init /\ [][Next]_vars

\* a cache whose entries live for one tick, under a sweep interval of none, one or two ticks
ShortTtlOptions == {1}
ShortIntervalOptions == {<<0>>, <<1>>, <<2>>}

ShortTtlNext ==
  \/ \E t \in ShortTtlOptions, c \in {1, 2}, i \in ShortIntervalOptions : Constructor(t, c, i)
  \/ Tick
  \/ \E key \in Keys, value \in Values : Set(key, value)
  \/ \E key \in Keys : Get(key)

SpecShortTtl == Init /\ [][ShortTtlNext]_vars

\* a caller that sets no more distinct keys than the cache has capacity, and no nil value
fewKeys(c) == {String(i) : i \in 1..c}
NonNilValues == {<<1>>, <<2>>}

SetFew(key, value) ==
  /\ key \in fewKeys(capacity)
  /\ Set(key, value)

FewKeysNext ==
  \/ \E c \in {1, 2}, i \in IntervalOptions : Constructor(2, c, i)
  \/ Tick
  \/ \E key \in Keys, value \in NonNilValues : SetFew(key, value)
  \/ \E key \in Keys : Get(key)

SpecFewKeys == Init /\ [][FewKeysNext]_vars

\* a caller that passes its own timestamps, in any order: the time of the next call is t
SetTime(t) ==
  /\ phase = "ready" /\ t # now
  /\ now' = t
  /\ call' = NoCall
  /\ lastSet' = Undefined
  /\ UNCHANGED <<phase, ttl, capacity, interval, last, map, list, recent, order, fifo, window>>
  /\ UNCHANGED collVars

\* the timestamps such a caller passes, and the sweep intervals of its cache
CallerTimes == {0, 1, 2}
CallerIntervalOptions == {<<0>>, <<2>>}

AnyTimeNext ==
  \/ \E c \in {1, 2}, i \in CallerIntervalOptions : Constructor(2, c, i)
  \/ \E t \in CallerTimes : SetTime(t)
  \/ \E key \in Keys, value \in Values : Set(key, value)
  \/ \E key \in Keys : Get(key)

SpecAnyTime == Init /\ [][AnyTimeNext]_vars

\* ----------------------------------------------------- the collection
\* new BaseCollection({ connection, name, cache }): if (options.cache !== undefined) this.cache = new Cache(options.cache)
CollectionConstructor(o) ==
  /\ coll = "none" /\ phase = "init"
  /\ IF isNil(o)
       THEN /\ coll' = "made"
            /\ call' = NoCall
            /\ UNCHANGED <<config, last, map, list, now>>
            /\ UNCHANGED ghost
       ELSE /\ newCache(o[1], o[2], o[3])
            /\ coll' = IF constructorOk(o[1], o[2]) THEN "made" ELSE "failed"
  /\ res' = NoRes
  /\ UNCHANGED <<connected, store, tasks>>

\* connection.connect()
Connect ==
  /\ coll = "made" /\ ~connected
  /\ connected' = TRUE
  /\ res' = NoRes
  /\ cacheIdle
  /\ UNCHANGED <<config, now, coll, store, tasks>>

\* connection.disconnect()
Disconnect ==
  /\ coll = "made" /\ connected
  /\ connected' = FALSE
  /\ res' = NoRes
  /\ cacheIdle
  /\ UNCHANGED <<config, now, coll, store, tasks>>

\* the outcome of a collection call that returns in one step
done(op, id, outcome, doc, queried) ==
  [op |-> op, caller |-> 0, id |-> id, outcome |-> outcome, doc |-> doc, queried |-> queried,
   reply |-> ""]

\* get collection(): this.connection.db throws DisconnectedError while the connection is closed
dbThrows == ~connected

\* a query that ignores its filter: any document of the store
storeFindOneAny(id) ==
  IF store = EmptyMap THEN Undefined
  ELSE LET other == CHOOSE i \in DOMAIN store : \A j \in DOMAIN store : i >= j
       IN  <<other, store[other]>>

\* what collection.findOne({ _id: id }) resolves to: the document, or null
storeFindOne(id) == IF mapHas(store, id) THEN <<id, store[id]>> ELSE Undefined

\* a cacheOne whose early return is never taken: every call goes on to the store
cacheOneNoReturn(cached) == FALSE

\* if (!isNil(cached)) return cached
cacheOneHit(cached) == ~isNil(cached)

\* cacheOne(id) up to its await: the lookup in the cache, and on a miss the call of findOne
CacheOneStart(p, id) ==
  /\ coll = "made" /\ tasks[p].pc = "idle"
  /\ LET key == String(id)
         cached == IF phase = "ready" THEN get(Cache, key, now).ret ELSE Undefined
     IN  /\ IF phase = "ready" THEN cacheGet(key) ELSE cacheIdle
         /\ IF cacheOneHit(cached)
              THEN /\ res' = [op |-> "cacheOne", caller |-> p, id |-> id, outcome |-> "ok",
                              doc |-> cached, queried |-> FALSE, reply |-> ""]
                   /\ UNCHANGED tasks
              ELSE IF dbThrows
                THEN /\ res' = [op |-> "cacheOne", caller |-> p, id |-> id,
                                outcome |-> "DisconnectedError", doc |-> Undefined,
                                queried |-> FALSE, reply |-> ""]
                     /\ UNCHANGED tasks
                ELSE /\ res' = NoRes
                     /\ tasks' = [tasks EXCEPT ![p] = [Idle EXCEPT !.pc = "query", !.id = id]]
  /\ UNCHANGED <<config, now, coll, connected, store>>

\* the store answers the query of a cacheOne in flight, or the query fails on a closed connection
StoreAnswer(p) ==
  /\ tasks[p].pc = "query"
  /\ tasks' = [tasks EXCEPT ![p] = [tasks[p] EXCEPT !.pc = "resume",
                                                    !.doc = IF connected
                                                              THEN storeFindOne(tasks[p].id)
                                                              ELSE Undefined,
                                                    !.failed = ~connected]]
  /\ res' = NoRes
  /\ cacheIdle
  /\ UNCHANGED <<config, now, coll, connected, store>>

\* cacheOne after its await: findOne throws or returns doc; this.cache?.set(key, doc); return doc
CacheOneResume(p) ==
  /\ tasks[p].pc = "resume"
  /\ LET t == tasks[p]
         returns(outcome, doc) == [op |-> "cacheOne", caller |-> p, id |-> t.id,
                                   outcome |-> outcome, doc |-> doc, queried |-> TRUE,
                                   reply |-> ""]
     IN  IF t.failed
           THEN res' = returns("DisconnectedError", Undefined) /\ cacheIdle
           ELSE IF isNil(t.doc)
             THEN res' = returns("NotFoundError", Undefined) /\ cacheIdle
             ELSE /\ res' = returns("ok", t.doc)
                  /\ IF phase = "ready" THEN cacheSet(String(t.id), t.doc) ELSE cacheIdle
  /\ tasks' = [tasks EXCEPT ![p] = Idle]
  /\ UNCHANGED <<config, now, coll, connected, store>>

\* findOne(id), called on its own: the query and its answer
FindOne(id) ==
  /\ coll = "made"
  /\ LET doc == storeFindOne(id)
     IN  res' = IF dbThrows THEN done("findOne", id, "DisconnectedError", Undefined, FALSE)
                ELSE IF isNil(doc) THEN done("findOne", id, "NotFoundError", Undefined, TRUE)
                ELSE done("findOne", id, "ok", doc, TRUE)
  /\ cacheIdle
  /\ UNCHANGED <<config, now, coll, connected, store, tasks>>

\* a write that clears the cache
afterWriteInvalidates ==
  /\ call' = NoCall
  /\ map' = EmptyMap /\ list' = <<>>
  /\ UNCHANGED last
  /\ UNCHANGED ghost

\* the cache across insert, update and delete: their bodies make no call on this.cache
afterWrite == cacheIdle

\* queryOne({ _id: id }): the document, or undefined when the store has none
QueryOne(id) ==
  /\ coll = "made"
  /\ LET doc == storeFindOne(id)
     IN  res' = IF dbThrows THEN done("queryOne", id, "DisconnectedError", Undefined, FALSE)
                ELSE done("queryOne", id, "ok", doc, TRUE)
  /\ cacheIdle
  /\ UNCHANGED <<config, now, coll, connected, store, tasks>>

\* UUIDCollection.generate: id ?? toUUID(); a new UUID is an id the store does not hold
generate(id) == IF isNil(id) THEN Ids \ DOMAIN store ELSE {id[1]}

\* the replies of the store to an insert of a new _id: acknowledged, not acknowledged (the
\* write then reached the store, or was lost), or an error that is no duplicate-key error
InsertReplies == {"acknowledged", "unacknowledged", "lost", "MongoServerError"}

\* what collection.insertOne(generated) does with an _id: the store rejects one it holds
\* with the duplicate-key error
insertReplies(id) == IF mapHas(store, id) THEN {"duplicate"} ELSE InsertReplies

\* isDuplicationError(err): the error is the store's duplicate-key error
isDuplicationError(err) == err = "duplicate"

\* a catch that reports every error of the store as a conflict
insertOutcomeWraps(reply) ==
  IF reply = "acknowledged" THEN "ok"
  ELSE IF reply \in {"unacknowledged", "lost"} THEN "UnacknowledgedError"
  ELSE "ConflictError"

\* the outcome of insertOne for a reply of the store: if (acknowledged) return generated;
\* catch (err) { throw isDuplicationError(err) ? new ConflictError : err }; throw new UnacknowledgedError
insertOutcome(reply) ==
  IF reply = "acknowledged" THEN "ok"
  ELSE IF reply \in {"unacknowledged", "lost"} THEN "UnacknowledgedError"
  ELSE IF isDuplicationError(reply) THEN "ConflictError"
  ELSE reply

\* insertOne(doc): doc._id is <<id>> or undefined
InsertOne(docId, content) ==
  /\ coll = "made"
  /\ \E id \in generate(docId) :
       LET generated == <<id, content>>
       IN  IF dbThrows
             THEN /\ res' = done("insertOne", id, "DisconnectedError", Undefined, FALSE)
                  /\ UNCHANGED store
             ELSE \E reply \in insertReplies(id) :
                    /\ res' = [done("insertOne", id, insertOutcome(reply),
                                    IF insertOutcome(reply) = "ok" THEN generated ELSE Undefined,
                                    TRUE) EXCEPT !.reply = reply]
                    /\ store' = IF reply \in {"acknowledged", "unacknowledged"}
                                  THEN mapSet(store, id, content) ELSE store
  /\ afterWrite
  /\ UNCHANGED <<config, now, coll, connected, tasks>>

\* updateOne(id, values): findOneAndUpdate({ _id: id }, values, { returnDocument: 'after' })
UpdateOne(id, content) ==
  /\ coll = "made"
  /\ IF dbThrows
       THEN /\ res' = done("updateOne", id, "DisconnectedError", Undefined, FALSE)
            /\ UNCHANGED store
       ELSE IF mapHas(store, id)
         THEN /\ res' = done("updateOne", id, "ok", <<id, content>>, TRUE)
              /\ store' = mapSet(store, id, content)
         ELSE /\ res' = done("updateOne", id, "NotFoundError", Undefined, TRUE)
              /\ UNCHANGED store
  /\ afterWrite
  /\ UNCHANGED <<config, now, coll, connected, tasks>>

\* a store that reports one deletion whatever it holds
deletedCountOne(id) == 1

\* the deletedCount of collection.deleteOne({ _id: id }): the number of documents it removed
deletedCount(id) == IF mapHas(store, id) THEN 1 ELSE 0

\* deleteOne(id): if (deletedCount !== 1) throw new NotFoundError
DeleteOne(id) ==
  /\ coll = "made"
  /\ IF dbThrows
       THEN /\ res' = done("deleteOne", id, "DisconnectedError", Undefined, FALSE)
            /\ UNCHANGED store
       ELSE /\ res' = IF deletedCount(id) # 1
                        THEN done("deleteOne", id, "NotFoundError", Undefined, TRUE)
                        ELSE done("deleteOne", id, "ok", Undefined, TRUE)
            /\ store' = mapDelete(store, id)
  /\ afterWrite
  /\ UNCHANGED <<config, now, coll, connected, tasks>>

\* the documents of the given ids, in the order of their ids
RECURSIVE docsOf(_, _)
docsOf(ids, content) ==
  IF ids = {} THEN <<>>
  ELSE LET id == CHOOSE i \in ids : \A j \in ids : i <= j
       IN  <<<<id, content>>>> \o docsOf(ids \ {id}, content)

\* insertMany(docs), the docs carrying the given _ids: if (docs.length === 0) return [];
\* the store rejects the batch at an _id it holds, having stored some of the others
InsertMany(ids, content) ==
  /\ coll = "made"
  /\ IF ids = {}
       THEN /\ res' = done("insertMany", 0, "ok", <<>>, FALSE)
            /\ UNCHANGED store
       ELSE IF dbThrows
         THEN /\ res' = done("insertMany", 0, "DisconnectedError", Undefined, FALSE)
              /\ UNCHANGED store
         ELSE IF ids \cap DOMAIN store # {}
           THEN /\ res' = [done("insertMany", 0, insertOutcome("duplicate"), Undefined, TRUE)
                             EXCEPT !.reply = "duplicate"]
                /\ \E stored \in SUBSET (ids \ DOMAIN store) :
                      store' = [id \in DOMAIN store \cup stored |->
                                  IF id \in stored THEN content ELSE store[id]]
           ELSE \E reply \in InsertReplies :
                  /\ res' = [done("insertMany", 0, insertOutcome(reply),
                                  IF insertOutcome(reply) = "ok" THEN docsOf(ids, content)
                                                                 ELSE Undefined,
                                  TRUE) EXCEPT !.reply = reply]
                  /\ store' = IF reply \in {"acknowledged", "unacknowledged"}
                                THEN [id \in DOMAIN store \cup ids |->
                                        IF id \in ids THEN content ELSE store[id]]
                                ELSE store
  /\ afterWrite
  /\ UNCHANGED <<config, now, coll, connected, tasks>>

\* updateMany(filter, update), the filter matching the given _ids: returns modifiedCount
UpdateMany(ids, content) ==
  /\ coll = "made"
  /\ IF dbThrows
       THEN /\ res' = done("updateMany", 0, "DisconnectedError", Undefined, FALSE)
            /\ UNCHANGED store
       ELSE LET modified == {id \in ids \cap DOMAIN store : store[id] # content}
            IN  /\ res' = done("updateMany", 0, "ok", <<Cardinality(modified)>>, TRUE)
                /\ store' = [id \in DOMAIN store |-> IF id \in ids THEN content ELSE store[id]]
  /\ afterWrite
  /\ UNCHANGED <<config, now, coll, connected, tasks>>

\* deleteMany(filter), the filter matching the given _ids: returns deletedCount
DeleteMany(ids) ==
  /\ coll = "made"
  /\ IF dbThrows
       THEN /\ res' = done("deleteMany", 0, "DisconnectedError", Undefined, FALSE)
            /\ UNCHANGED store
       ELSE /\ res' = done("deleteMany", 0, "ok", <<Cardinality(ids \cap DOMAIN store)>>, TRUE)
            /\ store' = [id \in DOMAIN store \ ids |-> store[id]]
  /\ afterWrite
  /\ UNCHANGED <<config, now, coll, connected, tasks>>

\* the _ids of the batches handed to insertMany: none, or one document per id
Batches == {{}, Ids}

\* the _ids the filters of updateMany and deleteMany match: those of the filter {}
Filters == {Ids}

CollNext ==
  \/ \E o \in CollectionOptions : CollectionConstructor(o)
  \/ Connect
  \/ Disconnect
  \/ Tick
  \/ \E p \in OneCaller, id \in Ids : CacheOneStart(p, id)
  \/ \E p \in OneCaller : StoreAnswer(p)
  \/ \E p \in OneCaller : CacheOneResume(p)
  \/ \E id \in Ids : FindOne(id)
  \/ \E id \in Ids : QueryOne(id)
  \/ \E docId \in {Undefined} \cup {<<id>> : id \in Ids}, content \in Contents :
        InsertOne(docId, content)
  \/ \E id \in Ids, content \in Contents : UpdateOne(id, content)
  \/ \E id \in Ids : DeleteOne(id)
  \/ \E ids \in Batches, content \in Contents : InsertMany(ids, content)
  \/ \E ids \in Filters, content \in Contents : UpdateMany(ids, content)
  \/ \E ids \in Filters : DeleteMany(ids)

SpecColl == Init /\ [][CollNext]_vars

\* two callers of cacheOne on one collection with a cache, their calls interleaved at the
\* await; the store gains documents and changes them meanwhile
ConcurrentOptions == {<<2, 1, <<0>>>>, <<2, 2, Undefined>>}

\* time passes while the calls are in flight, up to the expiry of an entry cached at the start
EarlyTick ==
  /\ now < 2
  /\ Tick

ConcurrentNext ==
  \/ \E o \in ConcurrentOptions : CollectionConstructor(o)
  \/ Connect
  \/ EarlyTick
  \/ \E p \in Callers, id \in Ids : CacheOneStart(p, id)
  \/ \E p \in Callers : StoreAnswer(p)
  \/ \E p \in Callers : CacheOneResume(p)
  \/ \E id \in Ids : InsertOne(<<id>>, 1)
  \/ \E id \in Ids, content \in Contents : UpdateOne(id, content)

SpecConcurrent == Init /\ [][ConcurrentNext]_vars

\* ------------------------------------------------------------- claims
size(m) == Cardinality(DOMAIN m)

\* the keys of a sequence of keys
keysOf(s) == {s[i] : i \in 1..Len(s)}

\* what get(key) would return now, the cache left as it is
reads(key) == get(Cache, key, now).ret

\* C1: capacity bound. Immediately after every set call returns, the map holds
\* at most capacity entries.
C1_CapacityBound ==
  call.op = "set" => size(map) <= capacity

\* a set that had to evict to stay within capacity
C1_Witness ==
  call.op = "set" /\ call.evicted # {} /\ size(map) = capacity /\ capacity = 2

\* C2: no stale reads. A get at time now returns a value only if the key's entry
\* expires after now (expiration = time of its set + ttl); on an entry with
\* expiration <= now it returns absent and the entry is gone from the map after
\* the call, whether or not a sweep ran.
C2_NoStaleReads ==
  [][call'.op = "get" =>
       LET key == call'.key
       IN  /\ (mapHas(map, key) /\ map[key][1] <= now) =>
                 (isNil(call'.ret) /\ ~mapHas(map', key))
           /\ ~isNil(call'.ret) =>
                 /\ mapHas(map, key) /\ map[key][1] > now
                 /\ ~isNil(recent[key]) /\ recent[key][1] + ttl > now
    ]_vars

\* a get reported absent for an expired key whose ledger entry no sweep has reached
C2_Witness ==
  /\ call.op = "get" /\ isNil(call.ret) /\ ~mapHas(map, call.key)
  /\ interval > 0
  /\ \E i \in 1..Len(list) : list[i][2] = call.key /\ list[i][1] <= now

\* C3: round trip. After set(k, v, t0), a get(k, t) with t0 <= t < t0 + ttl and no
\* set call in between (gets on any keys may intervene) returns v.
C3_RoundTrip ==
  (call.op = "get" /\ ~isNil(lastSet) /\ call.key = lastSet[1]
     /\ lastSet[3] <= now /\ now < lastSet[3] + ttl)
  => call.ret = lastSet[2]

\* a get at a later time than the set read back its non-nil value
C3_Witness ==
  /\ call.op = "get" /\ ~isNil(lastSet) /\ call.key = lastSet[1]
  /\ now > lastSet[3] /\ ~isNil(call.ret) /\ call.ret = lastSet[2]

\* C4: most-recent-set correspondence. Every entry of the map carries the value
\* and the expiration (t + ttl) of the most recent set on its key, and a value
\* that get returns is the value of the most recent set on that key.
C4_MostRecentSet ==
  /\ \A k \in DOMAIN map :
        ~isNil(recent[k]) /\ map[k] = <<recent[k][1] + ttl, recent[k][2]>>
  /\ (call.op = "get" /\ ~isNil(call.ret)) =>
        (~isNil(recent[call.key]) /\ call.ret = recent[call.key][2])

\* a get returned the value of a key that had been set before at an earlier time
C4_Witness ==
  /\ call.op = "get" /\ ~isNil(call.ret) /\ mapHas(map, call.key)
  /\ \E i \in 1..Len(list) : list[i][2] = call.key /\ list[i][1] < map[call.key][1]

\* C5: FIFO eviction order. While no key was set when present and no call saw an
\* expired entry, a set of a new key onto a full cache evicts exactly the key
\* that was set earliest among the keys in the map; the map then holds exactly
\* the keys of the latest capacity set calls, each reading back its value, and
\* every other key reads absent.
C5_FifoStep ==
  (fifo' /\ call'.op = "set" /\ isFull(map)) =>
     /\ call'.evicted = {Head(order)}
     /\ DOMAIN map' = (DOMAIN map \ {Head(order)}) \cup {call'.key}

C5_FifoState ==
  (phase = "ready" /\ fifo /\ ~someExpired(map, now)) =>
     /\ DOMAIN map = keysOf(window)
     /\ \A k \in Keys : reads(k) = IF k \in keysOf(window) THEN recent[k][2] ELSE Undefined

\* C5: FIFO eviction. While every key has been set once since it was last absent
\* and nothing has expired, each overflow evicts the key set earliest and the
\* cache holds exactly the latest min(k, capacity) keys set, with their values.
C5_FifoEviction == [][C5_FifoStep]_vars /\ []C5_FifoState

\* a set of a third key onto a full cache of capacity 2 evicted the oldest key
C5_Witness ==
  fifo /\ call.op = "set" /\ call.evicted # {} /\ capacity = 2 /\ ~(call.key \in call.evicted)

\* C6: overwrite-no-evict. A set at full capacity on a key whose entry is live
\* evicts nothing: the keys of the map are those the sweep of this call leaves,
\* the other entries are unchanged and the key holds the new value and expiration.
C6_OverwriteNoEvict ==
  [][(call'.op = "set" /\ size(map) = capacity
        /\ mapHas(map, call'.key) /\ map[call'.key][1] > now) =>
       /\ call'.evicted = {}
       /\ DOMAIN map' = DOMAIN scrub(Cache, now).map
       /\ \A k \in DOMAIN map' \ {call'.key} : map'[k] = map[k]
       /\ map'[call'.key] = <<now + ttl, call'.value>>
    ]_vars

\* C7: a re-set moves the key to the back of the eviction order: an overflow
\* eviction removes the key whose most recent set is the oldest among the keys
\* in the map when evict runs, also when sets share a timestamp.
C7_EvictsOldestRecentSet ==
  [][(call'.op = "set" /\ call'.evicted # {}) =>
       call'.evicted = {Head(keep(order, get(scrub(Cache, now), call'.key, now).cache.map))}
    ]_vars

\* C8: totality. No set or get fails an assertion: evict finds a ledger entry
\* that matches a map entry before its index passes the end of the ledger; and
\* a get on a key that is not in the map reports absent.
C8_Total ==
  /\ call.op \in {"set", "get"} => ~call.threw
  /\ (call.op = "get" /\ ~mapHas(map, call.key)) => isNil(call.ret)

\* evict scanned past a ledger entry that matched nothing before it found its match
C8_Witness ==
  call.op = "set" /\ call.scanned > 1 /\ call.evicted # {} /\ ~call.threw

\* C9: construction fails exactly when ttl <= 0 or capacity <= 0; otherwise the
\* cache has an empty map, an empty ledger, no last sweep, the given ttl and
\* capacity, and the given interval, or 10000 when none is given.
C9_Construction ==
  call.op = "new" =>
     LET t == call.opts[1]
         c == call.opts[2]
         i == call.opts[3]
     IN  /\ call.threw <=> (t <= 0 \/ c <= 0)
         /\ (phase = "failed") <=> call.threw
         /\ ~call.threw =>
              /\ phase = "ready"
              /\ map = EmptyMap /\ list = <<>> /\ last = Undefined
              /\ ttl = t /\ capacity = c
              /\ interval = IF isNil(i) THEN 10000 ELSE i[1]

\* a construction that failed on its capacity alone
C9_Witness ==
  call.op = "new" /\ call.threw /\ call.opts[1] > 0 /\ phase = "failed"

\* a step in which a caller begins cacheOne(id): it returns at once, or goes on to query the store
cacheOneBegins(id) ==
  \E p \in Callers :
    /\ tasks[p].pc = "idle"
    /\ \/ res'.op = "cacheOne" /\ res'.caller = p /\ res'.id = id
       \/ tasks'[p].pc = "query" /\ tasks'[p].id = id

\* C10: cached lookup avoids the store. A cacheOne(id) made while the cache holds
\* an unexpired entry under String(id) returns that entry's document, which is a
\* document of that id, without a store query, connected or not; a findOne made
\* while the connection is closed fails with DisconnectedError.
C10_CachedLookup ==
  [][\A id \in Ids :
       /\ (cacheOneBegins(id) /\ phase = "ready"
             /\ mapHas(map, String(id)) /\ map[String(id)][1] > now) =>
            /\ res'.op = "cacheOne" /\ res'.outcome = "ok" /\ ~res'.queried
            /\ res'.doc = map[String(id)][2] /\ res'.doc[1] = id
            /\ tasks' = tasks
       /\ (res'.op = "findOne" /\ res'.id = id /\ ~connected) =>
            res'.outcome = "DisconnectedError"
    ]_vars

\* a cacheOne answered from the cache while the connection was closed
C10_Witness ==
  res.op = "cacheOne" /\ res.outcome = "ok" /\ ~res.queried /\ ~connected

\* C11: not-found outcomes. On an open connection findOne, updateOne and deleteOne
\* on an id the store does not hold fail with NotFoundError and leave the store as
\* it is; deleteOne on an id it holds removes that document and no other; and
\* queryOne on an id the store does not hold returns undefined without failing.
C11_NotFound ==
  [][\A id \in Ids :
       /\ (res'.op \in {"findOne", "updateOne", "deleteOne"} /\ res'.id = id
             /\ connected /\ ~mapHas(store, id)) =>
            (res'.outcome = "NotFoundError" /\ store' = store)
       /\ (res'.op = "deleteOne" /\ res'.id = id /\ connected /\ mapHas(store, id)) =>
            /\ res'.outcome = "ok"
            /\ DOMAIN store' = DOMAIN store \ {id}
            /\ \A other \in DOMAIN store' : store'[other] = store[other]
       /\ (res'.op = "queryOne" /\ res'.id = id /\ connected /\ ~mapHas(store, id)) =>
            (res'.outcome = "ok" /\ isNil(res'.doc))
    ]_vars

\* a deleteOne removed its document and left the other one in the store
C11_Witness ==
  /\ res.op = "deleteOne" /\ res.outcome = "ok"
  /\ ~mapHas(store, res.id) /\ store # EmptyMap

\* C12: duplicate insert. On an open connection an insertOne with an _id the store
\* holds fails with ConflictError and leaves the store as it is; an error of the
\* store that is no duplicate-key error is the error the call fails with; and an
\* insert the store did not acknowledge fails with UnacknowledgedError.
C12_DuplicateInsert ==
  [][(res'.op = "insertOne" /\ connected) =>
       /\ mapHas(store, res'.id) => (res'.outcome = "ConflictError" /\ store' = store)
       /\ res'.reply = "MongoServerError" => res'.outcome = res'.reply
       /\ res'.reply \in {"unacknowledged", "lost"} => res'.outcome = "UnacknowledgedError"
       /\ res'.outcome = "ok" =>
            (~mapHas(store, res'.id) /\ store' = mapSet(store, res'.id, res'.doc[2]))
    ]_vars

\* a second insert of an _id failed with ConflictError, the first document kept
C12_Witness ==
  /\ res.op = "insertOne" /\ res.outcome = "ConflictError"
  /\ mapHas(store, res.id)

\* a step that is a get or a set call on the cache
cacheCall == call'.op \in {"get", "set"}

\* C13: scrub rate limiting. In a get or set call made at a time less than
\* interval after the last sweep, the scrub step removes nothing from the map or
\* the ledger and leaves the time of the last sweep as it is: every entry other
\* than the call's key and the key it evicts stays in the map, expired or not.
\* A sweep is recorded in last, so two sweeps are at least interval apart.
C13_RateLimit ==
  [][/\ (cacheCall /\ now - lastValue(last) < interval) =>
          /\ scrub(Cache, now) = Cache
          /\ ~call'.scrubbed /\ call'.swept = <<>>
          /\ last' = last
          /\ \A k \in DOMAIN map \ ({call'.key} \cup call'.evicted) :
                mapHas(map', k) /\ map'[k] = map[k]
          /\ call'.op = "get" => list' = list
          /\ call'.op = "set" =>
                list' = Append(splice(list, call'.scanned), <<now + ttl, call'.key>>)
     /\ (cacheCall /\ call'.scrubbed) =>
          /\ last' = <<now>>
          /\ ~isNil(last) => now - last[1] >= interval
     /\ last' # last => (cacheCall /\ call'.scrubbed)
    ]_vars

\* a get made less than interval after a sweep left an expired entry in a full map
C13_Witness ==
  /\ call.op = "get" /\ ~call.scrubbed
  /\ ~isNil(last) /\ last[1] < now
  /\ isFull(map)
  /\ \E k \in DOMAIN map : map[k][1] <= now /\ isNil(reads(k))

\* the entries of the map m that expire after the given time
liveEntries(m, time) == [k \in {j \in DOMAIN m : m[j][1] > time} |-> m[k]]

\* the entries of the ledger l that expire after the given time, in their order
liveLedger(l, time) == SelectSeq(l, LAMBDA item : item[1] > time)

\* C14: full-sweep postcondition. Right after the scrub step of a call at time
\* now that is not rate-limited, no ledger entry and no map entry has an
\* expiration <= now, the entries with an expiration > now are the ones there
\* were, in the same order, and the time of the last sweep is now.
C14_FullSweep ==
  [][(cacheCall /\ now - lastValue(last) >= interval) =>
       LET c == scrub(Cache, now)
       IN  /\ \A i \in 1..Len(c.list) : c.list[i][1] > now
           /\ \A k \in DOMAIN c.map : c.map[k][1] > now
           /\ c.list = liveLedger(list, now)
           /\ c.map = liveEntries(map, now)
           /\ c.last = <<now>>
           /\ call'.scrubbed /\ last' = <<now>>
           /\ list = call'.swept \o c.list
           /\ call'.op = "get" => (map' = c.map /\ list' = c.list)
    ]_vars

\* a sweep dropped expired entries and left live ones in the ledger and the map
C14_Witness ==
  /\ call.op = "get" /\ call.scrubbed /\ call.swept # <<>>
  /\ map # EmptyMap /\ list # <<>>
  /\ \E i \in 1..Len(call.swept) : ~mapHas(map, call.swept[i][2])

\* C15: stale-entry guard in scrub. The scrub step of a call at time now deletes
\* no map entry whose expiration is > now: a key set again after an earlier set
\* keeps its newer entry through a sweep that drops the ledger entry of the
\* earlier set, and a get returns its newer value.
C15_StaleEntryGuard ==
  [][cacheCall =>
       LET c == scrub(Cache, now)
       IN  /\ \A k \in DOMAIN map :
                 map[k][1] > now => (mapHas(c.map, k) /\ c.map[k] = map[k])
           /\ (call'.op = "get" /\ mapHas(map, call'.key) /\ map[call'.key][1] > now) =>
                 /\ call'.ret = map[call'.key][2]
                 /\ mapHas(map', call'.key) /\ map'[call'.key] = map[call'.key]
    ]_vars

\* a sweep dropped the ledger entry of an earlier set of a key, and the get that
\* ran it returned the value of the later set
C15_Witness ==
  /\ call.op = "get" /\ ~isNil(call.ret)
  /\ \E i \in 1..Len(call.swept) : call.swept[i][2] = call.key
  /\ mapHas(map, call.key) /\ map[call.key][1] > now

\* C16: ledger ordering. With a clock that never steps back, the ledger is sorted
\* by non-decreasing expiration from front to back in every reachable state.
C16_LedgerSorted ==
  \A i \in 1..Len(list), j \in 1..Len(list) : i < j => list[i][1] <= list[j][1]

\* a ledger of three entries whose expirations differ
C16_Witness ==
  Len(list) = 3 /\ list[1][1] < list[3][1]

\* C17: ledger mutation discipline. A set call appends exactly one entry
\* (now + ttl, key) at the back of the ledger, also when it overwrites a live
\* key, and removes at most a prefix; a get call removes at most the prefix its
\* scrub step drops, and its on-read expiry changes the map only; no other step
\* changes the ledger.
C17_LedgerDiscipline ==
  [][/\ (call'.op = "set" /\ ~call'.threw) =>
          /\ list' # <<>> /\ list'[Len(list')] = <<now + ttl, call'.key>>
          /\ \E n \in 0..Len(list) :
                list' = Append(SubSeq(list, n + 1, Len(list)), <<now + ttl, call'.key>>)
          /\ Len(list) - Len(list') + 1 = Len(call'.swept) + call'.scanned
     /\ call'.op = "get" =>
          /\ \E n \in 0..Len(list) : list' = SubSeq(list, n + 1, Len(list))
          /\ list = call'.swept \o list'
          /\ (mapHas(map, call'.key) /\ ~mapHas(map', call'.key) /\ ~call'.scrubbed) =>
                list' = list
     /\ ~cacheCall => list' = list
    ]_vars

\* a set on a live key added a second ledger entry for it and evicted nothing
C17_Witness ==
  /\ call.op = "set" /\ call.evicted = {} /\ call.swept = <<>>
  /\ Len(list) >= 2 /\ list[Len(list)] = <<now + ttl, call.key>>
  /\ \E i \in 1..(Len(list) - 1) : list[i][2] = call.key /\ list[i][1] > now

\* the cache on which a set of key at time now calls evict: after its scrub and its get
beforeEvict(key) == get(scrub(Cache, now), key, now).cache

\* a set of key at time now calls evict: this.isFull() && isNil(this.get(key, now))
evictRuns(key) ==
  isFull(scrub(Cache, now).map) /\ isNil(get(scrub(Cache, now), key, now).ret)

\* C18: evict step. An evict that starts with size = capacity deletes exactly one
\* map entry; the prefix it removes from the ledger front is a run of entries
\* that match no map entry, which leave the map as it is, followed by the one
\* entry that matches, whose key it deletes; the ledger behind that prefix keeps
\* its order and content.
C18_EvictStep ==
  [][(call'.op = "set" /\ evictRuns(call'.key)
        /\ size(beforeEvict(call'.key).map) = capacity) =>
       LET c == beforeEvict(call'.key)
           n == call'.scanned
       IN  /\ n \in 1..Len(c.list)
           /\ \A i \in 1..(n - 1) : ~matches(c.map, c.list[i])
           /\ matches(c.map, c.list[n])
           /\ call'.evicted = {c.list[n][2]}
           /\ evict(c).map = mapDelete(c.map, c.list[n][2])
           /\ size(evict(c).map) = size(c.map) - 1
           /\ evict(c).list = SubSeq(c.list, n + 1, Len(c.list))
           /\ list' = Append(SubSeq(c.list, n + 1, Len(c.list)), <<now + ttl, call'.key>>)
    ]_vars

\* an evict on a full map of two passed one ledger entry that matched nothing and
\* deleted the key of the next
C18_Witness ==
  /\ call.op = "set" /\ call.scanned = 2 /\ Cardinality(call.evicted) = 1
  /\ capacity = 2 /\ size(map) = 2

\* C20: the ledger covers the map. For every map entry (key k, expiration e) the
\* ledger holds an entry (e, k); so the ledger is at least as long as the map is
\* large, and on a full map evict finds an entry that matches.
C20_LedgerCoversMap ==
  /\ \A k \in DOMAIN map : \E i \in 1..Len(list) : list[i] = <<map[k][1], k>>
  /\ Len(list) >= size(map)
  /\ (phase = "ready" /\ isFull(map)) =>
        (evict(Cache).ok /\ \E i \in 1..Len(list) : matches(map, list[i]))

\* a full map of two under a ledger that also lists an entry no map entry matches
C20_Witness ==
  /\ phase = "ready" /\ capacity = 2 /\ size(map) = 2
  /\ Len(list) = 3
  /\ \E i \in 1..Len(list) : ~matches(map, list[i])

\* C19: cacheOne miss protocol. A cacheOne(id) that misses the cache queries the
\* store once, by _id; when the store holds the document the call returns it and
\* the cache holds it under String(id), with a new ledger entry; when the store
\* holds none the call fails with NotFoundError and the map and the ledger are
\* left as they were.
C19_CacheOneMiss ==
  [][\A p \in Callers :
       LET t == tasks[p]
           key == String(t.id)
       IN  /\ (t.pc = "idle" /\ tasks'[p].pc # "idle") =>
                (tasks'[p].pc = "query" /\ isNil(reads(String(tasks'[p].id))))
           /\ (t.pc = "query" /\ tasks'[p] # t) =>
                /\ tasks'[p].pc = "resume" /\ tasks'[p].id = t.id
                /\ connected =>
                     tasks'[p].doc = IF mapHas(store, t.id) THEN <<t.id, store[t.id]>>
                                                             ELSE Undefined
           /\ (t.pc = "resume" /\ tasks'[p] # t) =>
                /\ tasks'[p].pc = "idle"
                /\ res'.op = "cacheOne" /\ res'.caller = p /\ res'.id = t.id /\ res'.queried
                /\ (~t.failed /\ ~isNil(t.doc)) =>
                     /\ res'.outcome = "ok" /\ res'.doc = t.doc /\ t.doc[1] = t.id
                     /\ phase = "ready" =>
                          /\ mapHas(map', key) /\ map'[key] = <<now + ttl, t.doc>>
                          /\ list' # <<>> /\ list'[Len(list')] = <<now + ttl, key>>
                /\ (~t.failed /\ isNil(t.doc)) =>
                     /\ res'.outcome = "NotFoundError"
                     /\ map' = map /\ list' = list
    ]_vars

\* a cacheOne that missed fetched the document and left it in the cache
C19_Witness ==
  /\ res.op = "cacheOne" /\ res.queried /\ res.outcome = "ok"
  /\ phase = "ready" /\ mapHas(map, String(res.id))
  /\ map[String(res.id)] = <<now + ttl, res.doc>>

\* a cacheOne that missed found no document and left the cache empty
C19_WitnessNotFound ==
  /\ res.op = "cacheOne" /\ res.queried /\ res.outcome = "NotFoundError"
  /\ phase = "ready" /\ map = EmptyMap /\ list = <<>>

\* C21: expired before fresh. The entry evict deletes has the least expiration
\* of the entries in the map when evict runs; so a set at time now evicts no
\* entry that expires after now while the map holds one that has expired.
C21_ExpiredBeforeFresh ==
  [][(call'.op = "set" /\ call'.evicted # {}) =>
       LET m == beforeEvict(call'.key).map
       IN  /\ call'.evicted \subseteq DOMAIN m
           /\ call'.evictedAt = {m[k][1] : k \in call'.evicted}
           /\ \A k \in call'.evicted, other \in DOMAIN m : m[k][1] <= m[other][1]
           /\ (\E other \in DOMAIN m : m[other][1] <= now) =>
                 \A k \in call'.evicted : m[k][1] <= now
    ]_vars

\* a set evicted an expired entry that no sweep had removed, and kept a live one
C21_Witness ==
  /\ call.op = "set" /\ ~call.scrubbed
  /\ call.evictedAt # {} /\ \A e \in call.evictedAt : e <= now
  /\ \E k \in DOMAIN map \ {call.key} : map[k][1] > now

\* C22: bounded staleness of cleanup. After a get or set call at time now (the
\* clock never steps back and starts at 0), no map entry and no ledger entry has
\* an expiration <= now - interval; with interval = 0 every map entry expires
\* after now.
C22_BoundedStaleness ==
  call.op \in {"get", "set"} =>
     /\ \A k \in DOMAIN map : map[k][1] > now - interval
     /\ \A i \in 1..Len(list) : list[i][1] > now - interval
     /\ interval = 0 => \A k \in DOMAIN map : map[k][1] > now

\* a call less than interval after a sweep left an expired entry in the map
C22_Witness ==
  /\ call.op = "get" /\ ~call.scrubbed /\ ~isNil(last) /\ interval = 2
  /\ \E k \in DOMAIN map : map[k][1] <= now /\ map[k][1] > now - interval

\* C23: re-setting an expired key evicts no other key. A set(k, v) at time now on
\* a full map that still holds an expired entry for k evicts nothing and drops
\* no ledger entry in evict; when no sweep is due it is the lookup inside set
\* that removes k's entry; afterwards every other key that the sweep of this
\* call left in the map is there with its entry, and k holds v.
C23_ResetExpiredKey ==
  [][(call'.op = "set" /\ size(map) = capacity
        /\ mapHas(map, call'.key) /\ map[call'.key][1] <= now) =>
       LET k == call'.key
           c1 == scrub(Cache, now)
       IN  /\ call'.evicted = {} /\ call'.scanned = 0
           /\ ~mapHas(beforeEvict(k).map, k)
           /\ evict(beforeEvict(k)) = beforeEvict(k)
           /\ ~scrubDue(Cache, now) =>
                 (mapHas(c1.map, k) /\ isFull(c1.map) /\ get(c1, k, now).cache.map = mapDelete(map, k))
           /\ DOMAIN map' = (DOMAIN c1.map) \cup {k}
           /\ \A other \in DOMAIN c1.map \ {k} : map'[other] = map[other]
           /\ map'[k] = <<now + ttl, call'.value>>
    ]_vars

\* a set on a full map of two replaced its own expired entry, which no sweep had
\* removed, and the other key is still in the map
C23_Witness ==
  /\ call.op = "set" /\ ~call.scrubbed /\ call.evicted = {}
  /\ ~isNil(call.had) /\ call.had[1] <= now
  /\ capacity = 2 /\ size(map) = 2

\* the most recent set of key k has not expired at the given time
liveSet(k, time) == ~isNil(recent[k]) /\ time < recent[k][1] + ttl

C24_State ==
  /\ call.op = "set" => (call.evicted = {} /\ ~call.threw)
  /\ phase = "ready" => \A k \in Keys : liveSet(k, now) => reads(k) = recent[k][2]
  /\ (call.op = "get" /\ liveSet(call.key, now)) => call.ret = recent[call.key][2]

C24_Step ==
  /\ \A k \in Keys : (liveSet(k, now') /\ ~(call'.op = "set" /\ call'.key = k)) =>
                        recent'[k] = recent[k]
  /\ call'.op = "set" => recent'[call'.key] = <<now, call'.value>>

\* C24: no loss below capacity. When no more distinct keys are set than the
\* capacity and every value is non-nil, no set evicts an entry, the record of a
\* key's most recent set stays until its ttl has passed, and every get on the
\* key until then returns the value of that set.
C24_NoLossBelowCapacity == []C24_State /\ [][C24_Step]_vars

\* on a full map of two, after a key was set again, a later get returned its value
C24_Witness ==
  /\ call.op = "get" /\ ~isNil(call.ret) /\ liveSet(call.key, now)
  /\ recent[call.key][1] < now /\ call.ret = recent[call.key][2]
  /\ capacity = 2 /\ size(map) = 2 /\ Len(list) = 3

C25_State ==
  /\ call.op \in {"set", "get"} => ~call.threw
  /\ call.op = "set" => (size(map) <= capacity /\ mapHas(map, call.key))

C25_Step ==
  (call'.op = "get" /\ ~isNil(call'.ret)) =>
     /\ mapHas(map, call'.key) /\ map[call'.key][1] > now
     /\ call'.ret = map[call'.key][2]

\* C25: a clock that steps backwards. With timestamps in any order every set and
\* get completes without a failed assertion, the map holds at most capacity
\* entries after every set, and a get at time now returns a value only from an
\* entry that expires after now.
C25_AnyTimestamps == []C25_State /\ [][C25_Step]_vars

\* a set evicted on a full map under an unsorted ledger, at a time before the last sweep
C25_Witness ==
  /\ call.op = "set" /\ call.evicted # {} /\ size(map) = capacity
  /\ ~isNil(last) /\ now < last[1]
  /\ \E i \in 1..Len(list), j \in 1..Len(list) : i < j /\ list[i][1] > list[j][1]

\* the calls of a collection that write to the store
WriteOps == {"insertOne", "insertMany", "updateOne", "updateMany", "deleteOne", "deleteMany"}

\* C26: writes do not touch the cache. insertOne, insertMany, updateOne,
\* updateMany, deleteOne and deleteMany leave the map, the ledger and the time of
\* the last sweep as they are; so a cacheOne(id) on a live entry returns the
\* document of that entry, whatever the store holds for the id by then.
C26_WritesLeaveCache ==
  [][/\ res'.op \in WriteOps => (map' = map /\ list' = list /\ last' = last)
     /\ \A id \in Ids :
          (cacheOneBegins(id) /\ phase = "ready"
             /\ mapHas(map, String(id)) /\ map[String(id)][1] > now) =>
            /\ res'.op = "cacheOne" /\ res'.outcome = "ok" /\ ~res'.queried
            /\ res'.doc = map[String(id)][2]
            /\ store' = store
    ]_vars

\* a cacheOne returned the cached document after the store had changed or lost it
C26_Witness ==
  /\ res.op = "cacheOne" /\ res.outcome = "ok" /\ ~res.queried /\ connected
  /\ (~mapHas(store, res.id) \/ store[res.id] # res.doc[2])

\* the cache is whole: within capacity, its ledger sorted and covering the map, and every
\* entry under String(id) a document of that id
C27_State ==
  phase = "ready" =>
    /\ size(map) <= capacity
    /\ \A i \in 1..Len(list), j \in 1..Len(list) : i < j => list[i][1] <= list[j][1]
    /\ \A k \in DOMAIN map : \E i \in 1..Len(list) : list[i] = <<map[k][1], k>>
    /\ \A k \in DOMAIN map : \E id \in Ids : k = String(id) /\ map[k][2][1] = id
    /\ \A p \in Callers :
          (tasks[p].pc = "resume" /\ ~isNil(tasks[p].doc)) => tasks[p].doc[1] = tasks[p].id

C27_Step ==
  \A p \in Callers :
    LET t == tasks[p]
        key == String(t.id)
    IN  /\ tasks'[p] # t => \A q \in Callers \ {p} : tasks'[q] = tasks[q]
        /\ (t.pc = "idle" /\ tasks'[p] # t) =>
             /\ tasks'[p].pc = "query"
             /\ <<map', list', last'>> =
                   LET g == get(Cache, String(tasks'[p].id), now).cache
                   IN  <<g.map, g.list, g.last>>
        /\ (t.pc = "query" /\ tasks'[p] # t) =>
             /\ tasks'[p].doc = IF mapHas(store, t.id) THEN <<t.id, store[t.id]>> ELSE Undefined
             /\ <<map', list', last'>> = <<map, list, last>>
        /\ (t.pc = "resume" /\ tasks'[p] # t /\ phase = "ready" /\ ~isNil(t.doc)) =>
             /\ <<map', list', last'>> =
                   LET c == set(Cache, key, t.doc, now)
                   IN  <<c.map, c.list, c.last>>
             /\ map'[key] = <<now + ttl, t.doc>>
             /\ size(map') <= capacity
             /\ ~call'.threw
             /\ res'.doc = t.doc

\* C27: concurrent cacheOne calls. Under every interleaving of two callers at the
\* await of cacheOne, each step of a call applies one whole get or set to the
\* cache as it then is and leaves the other call as it was; the cache stays
\* within capacity with its ledger sorted and covering the map; and every entry
\* under String(id) is the document the store returned for that id to the call
\* that stored it.
C27_ConcurrentCacheOne == []C27_State /\ [][C27_Step]_vars

\* two calls for one id both missed and both fetched: the second has now stored its
\* document over the first's, leaving two equal ledger entries
C27_Witness ==
  /\ res.op = "cacheOne" /\ res.queried /\ res.outcome = "ok" /\ phase = "ready"
  /\ \E i \in 1..Len(list), j \in 1..Len(list) :
        i < j /\ list[i] = list[j] /\ list[i][2] = String(res.id)
  /\ map[String(res.id)][2] = res.doc

=============================================================================
